---- MODULE Spec2Model ----
(***************************************************************************)
(* ember-lifeline: owner-scoped debounced tasks (addon/debounce-task.ts)   *)
(* and DOM event listeners (addon/dom-event-listeners.js), together with   *)
(* the teardown closures both register with the disposable ledger.         *)
(***************************************************************************)
EXTENDS Integers, Sequences, FiniteSets, TLC

(* ----------------------------- input domains --------------------------- *)

\* The owner objects (the keys of the two WeakMaps).
Owners == {"A", "B"}

\* Names n for which typeof obj[n] === 'function'.  "set" and "get" are
\* methods of the owner that are also members of Map.prototype.
MethodNames == {"x", "y", "set", "get"}

\* Names n for which obj[n] is not a function.
FieldNames == {"title"}

\* Members of Map.prototype among the names: what `new Map()[n]` reads as a
\* function when the Map has no own property n.
MapMembers == {"set", "get"}

\* The debounceArgs a caller passes.
Args == {1, 2}

\* DOM elements listeners are attached to; NoElement is a null element.
Elements == {"T1", "T2"}
NoElement == "null"

EventNames == {"click", "keyup"}


\* The caller's callbacks (_callback).
Callbacks == {"cb1", "cb2"}

\* The (element, event name, _callback) triples the callers use.
Subscriptions ==
  {<<"T1", "click", "cb1">>, <<"T1", "click", "cb2">>,
   <<"T2", "click", "cb1">>, <<"T1", "keyup", "cb1">>}

\* The options argument: absent, or { capture: true }.
NoOptions == "undefined"
CaptureOptions == "capture"
OptionValues == {NoOptions, CaptureOptions}

\* Bounds of the model: the timers armed and the listeners attached in a
\* behaviour.
MaxTimers == 2
MaxListeners == 3

\* The listeners attached in a behaviour of the programs that call with
\* every subscription and options value.
MaxSubscribed == 2

(* ------------------------------- state --------------------------------- *)

VARIABLES
  registeredDebounces, \* WeakMap obj -> Map used as a plain object
  timers,              \* run loop: the pending debounced invocations
  nextTimer,           \* run loop: the next timer id it hands out
  isDestroyed,         \* obj.isDestroyed
  eventListeners,      \* WeakMap obj -> flat listener array
  attached,            \* event source: listeners attached to the elements
  nextCallback,        \* identity of the next run.bind wrapper
  PASSIVE_SUPPORTED,   \* module constant, detected once at load
  listenersRef,        \* the captured variable of each listeners disposable
  registered,          \* disposable ledger: registerDisposable calls so far
  called,              \* the call of an owner's task made by the last step
  disposed,            \* history: the teardown closures that have run
  last                 \* history: the last operation and how it ended

vars == <<registeredDebounces, timers, nextTimer, isDestroyed, eventListeners,
          attached, nextCallback, PASSIVE_SUPPORTED, listenersRef, registered,
          called, disposed, last>>

debounceVars == <<registeredDebounces, timers, nextTimer>>
listenerVars == <<eventListeners, attached, nextCallback, listenersRef>>

(* --------------------------- debounce-task.ts --------------------------- *)

\* A debouncedTask that is `undefined` (no wrapper was built).
UndefinedTask == [undefined |-> TRUE]

\* A cancelId that is `undefined`; the run loop's ids start at 1.
UndefinedId == 0

\* What `pendingDebounces[name]` reads.
OwnEntry == "entry"
MapFunction == "function"
Undefined == "undefined"

\* pendingDebounces[name] on a Map used with property syntax: the own
\* property when there is one, else the Map.prototype member, else undefined.
ReadKind(blob, name) ==
  IF name \in DOMAIN blob THEN OwnEntry
  ELSE IF name \in MapMembers THEN MapFunction
  ELSE Undefined

\* delete pendingDebounces[name]: removes an own property only.
DeleteName(blob, name) == [k \in (DOMAIN blob) \ {name} |-> blob[k]]

\* pendingDebounces[name] = { debouncedTask, cancelId }
PutName(blob, name, entry) ==
  [k \in (DOMAIN blob) \cup {name} |-> IF k = name THEN entry ELSE blob[k]]

\* @ember/runloop debounce(target, method, ...args, wait): a pending
\* invocation of the same target and method is replaced; the id is new.
\* `name` records the task name of the call that armed the timer.
RunDebounce(tms, target, method, args, id, name) ==
  {t \in tms : ~(t.target = target /\ t.method = method)}
    \cup {[target |-> target, method |-> method, args |-> args,
           id |-> id, name |-> name]}

\* @ember/runloop cancel(timer): drops the pending invocation with that id;
\* an unknown or undefined id is ignored.
RunCancel(tms, id) == {t \in tms : t.id # id}

\* The arrow function of debounceTask, lines 85-88.
NewWrapper(obj, name, id) == [obj |-> obj, name |-> name, id |-> id]

\* Lines 81-91: the wrapper debounceTask hands to the run loop.
ChooseTaskFresh(blob, obj, name, id) == NewWrapper(obj, name, id)

ChooseTask(blob, obj, name, id) ==
  CASE ReadKind(blob, name) = Undefined -> NewWrapper(obj, name, id)
    [] ReadKind(blob, name) = MapFunction -> UndefinedTask
    [] OTHER -> blob[name].debouncedTask

\* Lines 74-97 on the registry and the run loop: the state after a
\* debounceTask(obj, name, args, wait) call that passed its assertions.
DebounceEffect(reg, tms, next, obj, name, args) ==
  LET blob == IF obj \in DOMAIN reg THEN reg[obj] ELSE << >>
      debouncedTask == ChooseTask(blob, obj, name, next)
      entry == [debouncedTask |-> debouncedTask, cancelId |-> next]
  IN  [reg |-> [o \in (DOMAIN reg) \cup {obj} |->
                  IF o = obj THEN PutName(blob, name, entry) ELSE reg[o]],
       timers |-> RunDebounce(tms, obj, debouncedTask, args, next, name),
       next |-> next + 1]

\* registerDisposable(obj, dispose): the ledger keeps one more closure.
RegisterDisposable(led, obj, kind) ==
  [led EXCEPT ![obj][kind] = @ + 1]

\* The record kept of an operation: its name, how it ended, and what it
\* changed (the task name, timer or callback it acted on; << >>: nothing).
Result(op, res, on) == [op |-> op, res |-> res, on |-> on]

\* No call of an owner's task.
NoCall == << >>

\* The assertions of lines 61-72: the name is a string, obj[name] is a
\* function and the owner is not destroyed.
AssertionsIgnoreDestroyed(name, destroyed) == name \in MethodNames

Assertions(name, destroyed) == name \in MethodNames /\ ~destroyed

\* debounceTask(obj, name, ...debounceArgs)
DebounceTask(obj, name, args) ==
  /\ IF ~Assertions(name, isDestroyed[obj])
     THEN \* an assertion of lines 61-72 throws
          /\ last' = Result("debounceTask", "error", << >>)
          /\ UNCHANGED <<debounceVars, registered>>
     ELSE LET e == DebounceEffect(registeredDebounces, timers, nextTimer,
                                  obj, name, args)
              blob == IF obj \in DOMAIN registeredDebounces
                      THEN registeredDebounces[obj] ELSE << >>
          IN  /\ nextTimer <= MaxTimers
              /\ registered' = IF obj \in DOMAIN registeredDebounces
                               THEN registered
                               ELSE RegisterDisposable(registered, obj, "debounces")
              /\ \/ /\ registeredDebounces' = e.reg
                    /\ timers' = e.timers
                    /\ nextTimer' = e.next
                    /\ last' = Result("debounceTask", "ok", <<obj, name>>)
                 \/ \* the run loop may reject a method that is undefined:
                    \* line 94 throws after lines 74-79 ran
                    /\ ChooseTask(blob, obj, name, nextTimer) = UndefinedTask
                    /\ registeredDebounces' =
                         [o \in (DOMAIN registeredDebounces) \cup {obj} |->
                            IF o = obj THEN blob ELSE registeredDebounces[o]]
                    /\ last' = Result("debounceTask", "error", << >>)
                    /\ UNCHANGED <<timers, nextTimer>>
  /\ called' = NoCall
  /\ UNCHANGED <<isDestroyed, listenerVars, PASSIVE_SUPPORTED, disposed>>

\* obj[name](...args), line 87.
TaskCall(w, args) == <<w.obj, w.name, args>>

\* The wrapper of lines 85-88, up to the call of the task: the entry of its
\* name is deleted from the Map the wrapper captured.
WrapperEffectKeepsEntry(reg, w) == reg

WrapperEffect(reg, w) == [reg EXCEPT ![w.obj] = DeleteName(@, w.name)]

\* The run loop fires a pending invocation; the task returns without
\* scheduling anything.
Fire(tm) ==
  /\ tm \in timers
  /\ IF tm.method = UndefinedTask
     THEN \* the run loop has no function to call
          /\ timers' = timers \ {tm}
          /\ last' = Result("fire", "TypeError", <<tm.target, tm.name>>)
          /\ called' = NoCall
          /\ UNCHANGED registeredDebounces
     ELSE /\ timers' = timers \ {tm}
          /\ registeredDebounces' = WrapperEffect(registeredDebounces, tm.method)
          /\ last' = Result("fire", "invoked", <<tm.target, tm.name>>)
          /\ called' = TaskCall(tm.method, tm.args)
  /\ UNCHANGED <<nextTimer, isDestroyed, listenerVars, PASSIVE_SUPPORTED,
                 registered, disposed>>

\* The run loop fires a wrapper whose task calls
\* debounceTask(obj, name, args, wait) for its own name while it runs.
FireReentrant(tm, args) ==
  /\ tm \in timers
  /\ tm.method # UndefinedTask
  /\ ~isDestroyed[tm.method.obj]
  /\ nextTimer <= MaxTimers
  /\ LET w == tm.method
         e == DebounceEffect(WrapperEffect(registeredDebounces, w),
                             timers \ {tm}, nextTimer, w.obj, w.name, args)
     IN  /\ registeredDebounces' = e.reg
         /\ timers' = e.timers
         /\ nextTimer' = e.next
         /\ last' = Result("fire", "reentered", <<tm.target, tm.name>>)
         /\ called' = TaskCall(w, tm.args)
  /\ UNCHANGED <<isDestroyed, listenerVars, PASSIVE_SUPPORTED, registered,
                 disposed>>

\* Line 142: let { cancelId } = pendingDebounces[name]
CancelIdNone(blob, name) == UndefinedId

CancelIdOf(blob, name) ==
  IF ReadKind(blob, name) = OwnEntry THEN blob[name].cancelId ELSE UndefinedId

\* cancelDebounce(obj, name)
CancelDebounce(obj, name) ==
  /\ IF \/ obj \notin DOMAIN registeredDebounces
        \/ ReadKind(registeredDebounces[obj], name) = Undefined
     THEN /\ last' = Result("cancelDebounce", "return", << >>)
          /\ UNCHANGED <<registeredDebounces, timers>>
     ELSE LET blob == registeredDebounces[obj]
              cancelId == CancelIdOf(blob, name)
          IN  /\ registeredDebounces' =
                   [registeredDebounces EXCEPT ![obj] = DeleteName(blob, name)]
              /\ timers' = RunCancel(timers, cancelId)
              /\ last' = Result("cancelDebounce", "ok", <<obj, name>>)
  /\ called' = NoCall
  /\ UNCHANGED <<nextTimer, isDestroyed, listenerVars, PASSIVE_SUPPORTED,
                 registered, disposed>>

\* The timers left once the closure of getDebouncesDisposable(debounces) ran:
\* the cancelId of every own key of the Map is cancelled.
DisposeDebouncesNone(tms, debounces) == tms

DisposeDebounces(tms, debounces) ==
  {t \in tms : t.id \notin {debounces[k].cancelId : k \in DOMAIN debounces}}

\* The record of a teardown closure's run: "again" when it had run before.
Ran(before) == IF before THEN "again" ELSE "ok"

\* The ledger runs the closure registered by line 78.
RunDebouncesDisposable(obj) ==
  /\ registered[obj].debounces > 0
  /\ timers' = DisposeDebounces(timers, registeredDebounces[obj])
  /\ disposed' = [disposed EXCEPT ![obj].debounces = TRUE]
  /\ last' = Result("debouncesDisposable", Ran(disposed[obj].debounces), <<obj>>)
  /\ called' = NoCall
  /\ UNCHANGED <<registeredDebounces, nextTimer, isDestroyed, listenerVars,
                 PASSIVE_SUPPORTED, registered>>

\* The framework marks the owner destroyed.
Destroy(obj) ==
  /\ ~isDestroyed[obj]
  /\ isDestroyed' = [isDestroyed EXCEPT ![obj] = TRUE]
  /\ last' = Result("destroy", "ok", <<obj>>)
  /\ called' = NoCall
  /\ UNCHANGED <<debounceVars, listenerVars, PASSIVE_SUPPORTED, registered,
                 disposed>>

(* ------------------------ dom-event-listeners.js ------------------------ *)

LISTENER_ITEM_LENGTH == 5
INDEX_ELEMENT == 0
INDEX_EVENT_NAME == 1
INDEX_CALLBACK == 2
INDEX_ORIGINAL_CALLBACK == 3
INDEX_OPTIONS == 4

\* listeners[i] of the flat, zero-based listener array.
At(listeners, i) == listeners[i + 1]

\* The closure variable of getEventListenersDisposable: no closure yet, the
\* owner's listener array, or undefined.
NoClosure == "none"
RefArray == "array"
RefUndefined == "undefined"

\* Lines 97-99 and 134-136.
AdjustOptions(passive, options) == IF ~passive THEN NoOptions ELSE options

\* The capture flag the event source derives from an options argument.
UseCapture(options) == options = CaptureOptions

Listener(element, eventName, callback, options) ==
  [element |-> element, type |-> eventName, callback |-> callback,
   capture |-> UseCapture(options)]

\* element.addEventListener(eventName, callback, options)
ElementAdd(att, element, eventName, callback, options) ==
  att \cup {Listener(element, eventName, callback, options)}

\* element.removeEventListener(eventName, callback, options): removes the
\* listener with that type, callback and capture flag, if there is one.
ElementRemove(att, element, eventName, callback, options) ==
  att \ {Listener(element, eventName, callback, options)}

\* getEventListeners(obj), lines 173-183, on the WeakMap.
GetEventListeners(map, obj) ==
  IF obj \in DOMAIN map THEN map
  ELSE [o \in (DOMAIN map) \cup {obj} |-> IF o = obj THEN << >> ELSE map[o]]

\* getEventListeners(obj) on the ledger and the closure it creates.
GetEventListenersLedgerAlways(obj) ==
  /\ registered' = RegisterDisposable(registered, obj, "listeners")
  /\ listenersRef' = [listenersRef EXCEPT ![obj] = RefArray]

GetEventListenersLedger(obj) ==
  IF obj \in DOMAIN eventListeners
  THEN UNCHANGED <<registered, listenersRef>>
  ELSE /\ registered' = RegisterDisposable(registered, obj, "listeners")
       /\ listenersRef' = [listenersRef EXCEPT ![obj] = RefArray]

\* run.bind(obj, _callback): a new function each time.
RunBind(obj, cb, id) == [obj |-> obj, callback |-> cb, id |-> id]

\* listeners.push(element, eventName, callback, _callback, options)
Push(listeners, element, eventName, callback, cb, options) ==
  listeners \o <<element, eventName, callback, cb, options>>

\* addEventListener(obj, element, eventName, _callback, options)
AddEventListener(obj, element, eventName, cb, options) ==
  /\ IF element = NoElement
     THEN \* an assertion of lines 88-92 throws
          /\ last' = Result("addEventListener", "error", << >>)
          /\ UNCHANGED <<listenerVars, registered>>
     ELSE LET callback == RunBind(obj, cb, nextCallback)
              opts == AdjustOptions(PASSIVE_SUPPORTED, options)
              map == GetEventListeners(eventListeners, obj)
          IN  /\ nextCallback <= MaxListeners
              /\ GetEventListenersLedger(obj)
              /\ attached' = ElementAdd(attached, element, eventName, callback, opts)
              /\ eventListeners' =
                   [map EXCEPT ![obj] =
                      Push(@, element, eventName, callback, cb, opts)]
              /\ nextCallback' = nextCallback + 1
              /\ last' = Result("addEventListener", "ok", <<callback>>)
  /\ called' = NoCall
  /\ UNCHANGED <<debounceVars, isDestroyed, PASSIVE_SUPPORTED, disposed>>

\* The test of lines 140-144 at index i.
MatchesAnyCallback(listeners, i, element, eventName, cb) ==
  /\ At(listeners, i + INDEX_ELEMENT) = element
  /\ At(listeners, i + INDEX_EVENT_NAME) = eventName

Matches(listeners, i, element, eventName, cb) ==
  /\ At(listeners, i + INDEX_ELEMENT) = element
  /\ At(listeners, i + INDEX_EVENT_NAME) = eventName
  /\ At(listeners, i + INDEX_ORIGINAL_CALLBACK) = cb

\* The indexes the loops of lines 139 and 160 visit.
ItemIndexes(listeners) ==
  {i \in 0..(Len(listeners) - 1) : i % LISTENER_ITEM_LENGTH = 0}

NoIndex == -1

\* The loop of lines 139-153: the index of the first item that matches, or
\* NoIndex.
FindListenerLast(listeners, element, eventName, cb) ==
  LET hits == {i \in ItemIndexes(listeners) :
                 Matches(listeners, i, element, eventName, cb)}
  IN  IF hits = {} THEN NoIndex ELSE CHOOSE i \in hits : \A j \in hits : i >= j

FindListener(listeners, element, eventName, cb) ==
  LET hits == {i \in ItemIndexes(listeners) :
                 Matches(listeners, i, element, eventName, cb)}
  IN  IF hits = {} THEN NoIndex ELSE CHOOSE i \in hits : \A j \in hits : i <= j

\* listeners.splice(i, n)
SpliceToEnd(listeners, i, n) == SubSeq(listeners, 1, i)

SpliceRotated(listeners, i, n) ==
  SubSeq(listeners, i + n + 1, Len(listeners)) \o SubSeq(listeners, 1, i)

Splice(listeners, i, n) ==
  SubSeq(listeners, 1, i) \o SubSeq(listeners, i + n + 1, Len(listeners))

\* Line 149: the options removeEventListener passes to the element.
RemoveOptions(listeners, i, options) == options

\* removeEventListener(obj, element, eventName, callback, options)
RemoveEventListener(obj, element, eventName, cb, options) ==
  /\ IF element = NoElement
     THEN \* an assertion of lines 119-126 throws
          /\ last' = Result("removeEventListener", "error", << >>)
          /\ UNCHANGED <<listenerVars, registered>>
     ELSE LET map == GetEventListeners(eventListeners, obj)
              listeners == map[obj]
              opts == AdjustOptions(PASSIVE_SUPPORTED, options)
              i == FindListener(listeners, element, eventName, cb)
          IN  /\ GetEventListenersLedger(obj)
              /\ IF i = NoIndex
                 THEN /\ eventListeners' = map
                      /\ attached' = attached
                      /\ last' = Result("removeEventListener", "nomatch", << >>)
                 ELSE /\ attached' =
                           ElementRemove(attached, element, eventName,
                                         At(listeners, i + INDEX_CALLBACK),
                                         RemoveOptions(listeners, i, opts))
                      /\ eventListeners' =
                           [map EXCEPT ![obj] =
                              Splice(listeners, i, LISTENER_ITEM_LENGTH)]
                      /\ last' = Result("removeEventListener", "removed",
                                        <<At(listeners, i + INDEX_CALLBACK)>>)
              /\ UNCHANGED nextCallback
  /\ called' = NoCall
  /\ UNCHANGED <<debounceVars, isDestroyed, PASSIVE_SUPPORTED, disposed>>

RECURSIVE DetachFrom(_, _, _)
\* The loop of lines 160-167 from index i on: every item's callback is
\* removed from its element with the item's own options.
DetachFrom(att, listeners, i) ==
  IF i >= Len(listeners) THEN att
  ELSE DetachFrom(ElementRemove(att, At(listeners, i + INDEX_ELEMENT),
                                At(listeners, i + INDEX_EVENT_NAME),
                                At(listeners, i + INDEX_CALLBACK),
                                At(listeners, i + INDEX_OPTIONS)),
                  listeners, i + LISTENER_ITEM_LENGTH)

\* The closure variable after the closure ran, line 168.
RefAfterDisposeKept(ref) == ref

RefAfterDispose(ref) == RefUndefined

\* The ledger runs the closure registered by line 179.
RunEventListenersDisposable(obj) ==
  /\ registered[obj].listeners > 0
  /\ IF listenersRef[obj] = RefArray
     THEN /\ attached' = DetachFrom(attached, eventListeners[obj], 0)
          /\ listenersRef' = [listenersRef EXCEPT ![obj] = RefAfterDispose(@)]
     ELSE UNCHANGED <<attached, listenersRef>>
  /\ disposed' = [disposed EXCEPT ![obj].listeners = TRUE]
  /\ last' = Result("eventListenersDisposable", Ran(disposed[obj].listeners),
                    <<obj>>)
  /\ called' = NoCall
  /\ UNCHANGED <<debounceVars, isDestroyed, eventListeners, nextCallback,
                 PASSIVE_SUPPORTED, registered>>

(* ---------------------------- specification ----------------------------- *)

Init ==
  /\ registeredDebounces = << >>
  /\ timers = {}
  /\ nextTimer = 1
  /\ isDestroyed = [o \in Owners |-> FALSE]
  /\ eventListeners = << >>
  /\ attached = {}
  /\ nextCallback = 1
  /\ PASSIVE_SUPPORTED \in BOOLEAN
  /\ listenersRef = [o \in Owners |-> NoClosure]
  /\ registered = [o \in Owners |-> [debounces |-> 0, listeners |-> 0]]
  /\ called = NoCall
  /\ disposed = [o \in Owners |-> [debounces |-> FALSE, listeners |-> FALSE]]
  /\ last = Result("init", "ok", << >>)

\* The calls the callers make: owner A with every name, argument,
\* subscription and options value, owner B with the same task name and the
\* same subscription as A.
DebounceCalls ==
  {<<"A", n, a>> : n \in MethodNames \cup FieldNames, a \in Args}
    \cup {<<"B", "x", a>> : a \in Args}

CancelCalls ==
  {<<"A", n>> : n \in MethodNames \cup FieldNames} \cup {<<"B", "x">>}

ListenerCalls ==
  {<<"A", s[1], s[2], s[3], opt>> : s \in Subscriptions, opt \in OptionValues}
    \cup {<<"B", "T1", "click", "cb1", NoOptions>>}
    \cup {<<o, NoElement, "click", "cb1", NoOptions>> : o \in Owners}

NextDebounce ==
  \/ \E c \in DebounceCalls : DebounceTask(c[1], c[2], c[3])
  \/ \E tm \in timers : Fire(tm)
  \/ \E tm \in timers, a \in Args : FireReentrant(tm, a)
  \/ \E c \in CancelCalls : CancelDebounce(c[1], c[2])
  \/ \E o \in Owners : RunDebouncesDisposable(o)
  \/ \E o \in Owners : Destroy(o)

NextListeners ==
  \/ \E c \in ListenerCalls :
       /\ c[2] # NoElement => nextCallback <= MaxSubscribed
       /\ AddEventListener(c[1], c[2], c[3], c[4], c[5])
  \/ \E c \in ListenerCalls : RemoveEventListener(c[1], c[2], c[3], c[4], c[5])
  \/ \E o \in Owners : RunEventListenersDisposable(o)

\* A program that uses debounce-task.ts alone.
SpecDebounce == Init /\ [][NextDebounce]_vars

\* A program that uses dom-event-listeners.js alone.
SpecListeners == Init /\ [][NextListeners]_vars

\* A program with one owner that uses both modules.
Next ==
  \/ \E n \in {"x", "set"} : DebounceTask("A", n, 1)
  \/ \E tm \in timers : Fire(tm)
  \/ \E tm \in timers : FireReentrant(tm, 1)
  \/ \E n \in {"x", "set"} : CancelDebounce("A", n)
  \/ RunDebouncesDisposable("A")
  \/ Destroy("A")
  \/ \E opt \in OptionValues :
       /\ nextCallback <= MaxSubscribed
       /\ AddEventListener("A", "T1", "click", "cb1", opt)
  \/ \E opt \in OptionValues : RemoveEventListener("A", "T1", "click", "cb1", opt)
  \/ RunEventListenersDisposable("A")

Spec == Init /\ [][Next]_vars

\* The calls of a program in which one owner subscribes two callbacks to
\* one element and event name, any number of times each.
OrderCalls ==
  {<<"A", "T1", "click", cb, opt>> : cb \in Callbacks, opt \in OptionValues}

NextOrder ==
  \/ \E c \in OrderCalls : AddEventListener(c[1], c[2], c[3], c[4], c[5])
  \/ \E c \in OrderCalls : RemoveEventListener(c[1], c[2], c[3], c[4], c[5])
  \/ RunEventListenersDisposable("A")

\* A program that uses dom-event-listeners.js for one owner and element.
SpecOrder == Init /\ [][NextOrder]_vars

(* ------------------------------ properties ----------------------------- *)

\* The pending invocations armed by debounceTask(obj, name, ...).
PendingFor(tms, obj, name) == {t \in tms : t.target = obj /\ t.name = name}

\* The Map of an owner, empty when the WeakMap has none.
BlobOf(reg, obj) == IF obj \in DOMAIN reg THEN reg[obj] ELSE << >>

\* The listener array of an owner, empty when the WeakMap has none.
ListenersOf(map, obj) == IF obj \in DOMAIN map THEN map[obj] ELSE << >>

\* The (element, event name, original callback) of the item at index i.
TripleAt(listeners, i) ==
  <<At(listeners, i + INDEX_ELEMENT), At(listeners, i + INDEX_EVENT_NAME),
    At(listeners, i + INDEX_ORIGINAL_CALLBACK)>>

\* The indexes of the items registered for a triple.
IndexesFor(listeners, triple) ==
  {i \in ItemIndexes(listeners) : TripleAt(listeners, i) = triple}

RECURSIVE ItemsNotFor(_, _, _)
\* The items from index i on that are registered for another triple, in order.
ItemsNotFor(listeners, i, triple) ==
  IF i >= Len(listeners) THEN << >>
  ELSE (IF TripleAt(listeners, i) = triple THEN << >>
        ELSE SubSeq(listeners, i + 1, i + LISTENER_ITEM_LENGTH))
         \o ItemsNotFor(listeners, i + LISTENER_ITEM_LENGTH, triple)

\* The dispatch wrappers attached to some element.
AttachedCallbacks(att) == {l.callback : l \in att}

\* C1: debounce coalescing.  Every successful debounceTask(obj, name, args)
\* leaves exactly one pending invocation for (obj, name), carrying args, and
\* when that invocation fires, obj[name] is called once, with the arguments
\* of the last call, and nothing stays pending for (obj, name) unless the
\* task itself scheduled again.
C1_Coalescing ==
  [][/\ \A c \in DebounceCalls :
          (DebounceTask(c[1], c[2], c[3]) /\ last'.res = "ok")
            => \E t \in timers' :
                 /\ PendingFor(timers', c[1], c[2]) = {t}
                 /\ t.args = c[3]
     /\ \A tm \in timers :
          Fire(tm) => /\ called' = <<tm.target, tm.name, tm.args>>
                      /\ PendingFor(timers', tm.target, tm.name) = {}
     /\ \A tm \in timers, a \in Args :
          FireReentrant(tm, a) => called' = <<tm.target, tm.name, tm.args>>
    ]_vars

\* C1 for the task names that are no member of Map.prototype.
C1_CoalescingPlainNames ==
  [][/\ \A c \in DebounceCalls :
          (DebounceTask(c[1], c[2], c[3]) /\ last'.res = "ok")
            => \E t \in timers' :
                 /\ PendingFor(timers', c[1], c[2]) = {t}
                 /\ t.args = c[3]
     /\ \A tm \in timers :
          (Fire(tm) /\ tm.name \notin MapMembers)
            => /\ called' = <<tm.target, tm.name, tm.args>>
               /\ PendingFor(timers', tm.target, tm.name) = {}
     /\ \A tm \in timers, a \in Args :
          FireReentrant(tm, a) => called' = <<tm.target, tm.name, tm.args>>
    ]_vars

\* C2: disposal completeness for debounces.  When the debounce teardown
\* closure of an owner has run, no invocation scheduled for that owner is
\* pending any more, so none scheduled before the teardown can call the task.
C2_DisposalCancelsDebounces ==
  [][\A o \in Owners :
       RunDebouncesDisposable(o) => \A t \in timers' : t.target # o]_vars

\* A first teardown run has just cancelled the pending debounces of two task
\* names of the only owner that was ever torn down.
C2_Witness ==
  /\ last = Result("debouncesDisposable", "ok", <<"A">>)
  /\ ~disposed["B"].debounces
  /\ {"x", "y"} \subseteq DOMAIN BlobOf(registeredDebounces, "A")
  /\ \A t \in timers : t.target # "A"

\* C3: disposal completeness for subscriptions.  When the subscription
\* teardown closure of an owner has run, no dispatch wrapper bound to that
\* owner is attached to any element.
C3_DisposalDetachesListeners ==
  [][\A o \in Owners :
       RunEventListenersDisposable(o)
         => \A l \in attached' : l.callback.obj # o]_vars

\* C4: in every reachable state the run loop holds at most one pending
\* invocation per owner and task name.
C4_AtMostOnePending ==
  \A o \in Owners, n \in MethodNames :
    Cardinality(PendingFor(timers, o, n)) <= 1

\* A debounceTask call has just re-armed a name whose invocation was pending:
\* the wrapper is the one an earlier call built, the timer id is new.
C4_Witness ==
  /\ last.op = "debounceTask" /\ last.res = "ok"
  /\ \E t \in timers :
       /\ t.method # UndefinedTask
       /\ t.id > t.method.id
       /\ t.id = nextTimer - 1
       /\ ~disposed[t.target].debounces
       /\ PendingFor(timers, t.target, t.name) = {t}

\* The listener calls that pass an element.
ElementCalls == {c \in ListenerCalls : c[2] # NoElement}

\* The wrappers of an owner attached for a triple.
AttachedFor(att, obj, triple) ==
  {l \in att : /\ l.callback.obj = obj
               /\ <<l.element, l.type, l.callback.callback>> = triple}

\* C5: subscription removal precision.  removeEventListener(obj, T, e, cb)
\* removes no item registered for another element, event name or callback
\* and keeps their order, detaches nothing but a wrapper the owner attached
\* to T for e and cb, takes at most one item and one wrapper away, and
\* leaves the lists of the other owners alone.
C5_RemovalPrecision ==
  [][last'.op = "removeEventListener" =>
       \A c \in ElementCalls :
         RemoveEventListener(c[1], c[2], c[3], c[4], c[5]) =>
           LET triple == <<c[2], c[3], c[4]>>
               before == ListenersOf(eventListeners, c[1])
               after == ListenersOf(eventListeners', c[1])
           IN  /\ ItemsNotFor(after, 0, triple) = ItemsNotFor(before, 0, triple)
               /\ Len(before) - Len(after) \in {0, LISTENER_ITEM_LENGTH}
               /\ attached' \subseteq attached
               /\ attached \ attached' \subseteq AttachedFor(attached, c[1], triple)
               /\ Cardinality(attached \ attached') <= 1
               /\ \A o \in Owners \ {c[1]} :
                    ListenersOf(eventListeners', o) = ListenersOf(eventListeners, o)
    ]_vars

\* The owner unsubscribed cb1 from (T1, click): the item and the attached
\* wrapper of cb2 for the same element and event name are still there.
C5_Witness ==
  /\ last.op = "removeEventListener" /\ last.res = "removed"
  /\ last.on = <<RunBind("A", "cb1", 1)>>
  /\ "A" \in DOMAIN eventListeners
  /\ Len(eventListeners["A"]) = LISTENER_ITEM_LENGTH
  /\ TripleAt(eventListeners["A"], 0) = <<"T1", "click", "cb2">>
  /\ \E l \in attached : l.callback = At(eventListeners["A"], INDEX_CALLBACK)
  /\ \A l \in attached : l.callback # RunBind("A", "cb1", 1)

\* Every item the owner holds for the triple was registered without options
\* and has its wrapper attached, one wrapper per item.
PlainlySubscribed(obj, triple) ==
  LET listeners == ListenersOf(eventListeners, obj)
  IN  /\ \A i \in IndexesFor(listeners, triple) :
           /\ At(listeners, i + INDEX_OPTIONS) = NoOptions
           /\ \E l \in attached : l.callback = At(listeners, i + INDEX_CALLBACK)
      /\ Cardinality(IndexesFor(listeners, triple))
           = Cardinality(AttachedFor(attached, obj, triple))

\* C6: duplicate registration.  Every addEventListener(obj, T, e, cb) adds
\* one item of its own with a newly attached wrapper of its own, and while
\* the owner's items for (T, e, cb) all have their wrapper attached, every
\* removeEventListener(obj, T, e, cb) that finds an item takes exactly one
\* item and exactly one attached wrapper away: k registrations and j <= k
\* removals leave k - j items and k - j attached wrappers.
C6_DuplicateRegistration ==
  [][\A c \in ElementCalls :
       LET triple == <<c[2], c[3], c[4]>>
           before == IndexesFor(ListenersOf(eventListeners, c[1]), triple)
           after == IndexesFor(ListenersOf(eventListeners', c[1]), triple)
           wrappers == AttachedFor(attached, c[1], triple)
           wrappersAfter == AttachedFor(attached', c[1], triple)
       IN  /\ ( /\ last'.op = "addEventListener"
                /\ AddEventListener(c[1], c[2], c[3], c[4], c[5]) ) =>
                /\ Cardinality(after) = Cardinality(before) + 1
                /\ last'.on[1] \notin AttachedCallbacks(attached)
                /\ \E l \in wrappersAfter \ wrappers : l.callback = last'.on[1]
                /\ Cardinality(wrappersAfter) = Cardinality(wrappers) + 1
           /\ ( /\ c[5] = NoOptions
                /\ last'.op = "removeEventListener"
                /\ PlainlySubscribed(c[1], triple)
                /\ RemoveEventListener(c[1], c[2], c[3], c[4], c[5]) ) =>
                /\ PlainlySubscribed(c[1], triple)'
                /\ IF before = {}
                   THEN after = {} /\ wrappersAfter = wrappers
                   ELSE /\ Cardinality(after) = Cardinality(before) - 1
                        /\ Cardinality(wrappersAfter) = Cardinality(wrappers) - 1
    ]_vars

\* The owner subscribed cb1 to (T1, click) twice and unsubscribed it once:
\* one item and one attached wrapper remain.
C6_Witness ==
  /\ last.op = "removeEventListener" /\ last.res = "removed"
  /\ last.on = <<RunBind("A", "cb1", 1)>>
  /\ nextCallback = 3
  /\ "A" \in DOMAIN eventListeners
  /\ eventListeners["A"]
       = <<"T1", "click", RunBind("A", "cb1", 2), "cb1", NoOptions>>
  /\ attached = {Listener("T1", "click", RunBind("A", "cb1", 2), NoOptions)}

\* C7: cancel idempotence.  cancelDebounce(obj, name) never raises in any
\* state, and after each call the owner's Map has no entry for the name and
\* no invocation is pending for (obj, name).
C7_CancelIdempotent ==
  [][\A c \in CancelCalls :
       CancelDebounce(c[1], c[2]) =>
         /\ last'.res # "error"
         /\ c[2] \notin DOMAIN BlobOf(registeredDebounces', c[1])
         /\ PendingFor(timers', c[1], c[2]) = {}
    ]_vars

\* cancelDebounce has just cancelled the only invocation ever scheduled.
C7_Witness ==
  /\ last = Result("cancelDebounce", "ok", <<"A", "x">>)
  /\ nextTimer = 2
  /\ timers = {}
  /\ ~disposed["A"].debounces
  /\ "A" \in DOMAIN registeredDebounces
  /\ "x" \notin DOMAIN registeredDebounces["A"]

\* C8: synchronous detach.  Whenever removeEventListener returns after it
\* matched an item of the owner's list, that item's wrapper is attached to
\* no element any more, whatever options the caller passed and whatever
\* options the subscription was made with.
C8_SynchronousDetach ==
  [][\A c \in ElementCalls :
       ( /\ RemoveEventListener(c[1], c[2], c[3], c[4], c[5])
         /\ last'.res = "removed" )
         => last'.on[1] \notin AttachedCallbacks(attached')
    ]_vars

\* C9 as stated: a second run of a teardown closure changes nothing.
C9_SecondRunChangesNothing ==
  [][\A o \in Owners :
       /\ (RunDebouncesDisposable(o) /\ disposed[o].debounces)
            => UNCHANGED <<timers, registeredDebounces>>
       /\ (RunEventListenersDisposable(o) /\ disposed[o].listeners)
            => UNCHANGED <<attached, eventListeners, listenersRef>>
    ]_vars

\* C9: a second run of the subscription teardown closure changes nothing; a
\* second run of the debounce teardown closure raises no error, leaves the
\* owner's Map as it was and changes nothing unless a debounce was scheduled
\* for the owner since the first run, in which case it cancels exactly the
\* owner's pending invocations.
C9_SecondRun ==
  [][\A o \in Owners :
       /\ (RunDebouncesDisposable(o) /\ disposed[o].debounces)
            => /\ last'.res = "again"
               /\ registeredDebounces' = registeredDebounces
               /\ timers' = {t \in timers : t.target # o}
       /\ (RunEventListenersDisposable(o) /\ disposed[o].listeners)
            => /\ last'.res = "again"
               /\ UNCHANGED <<attached, eventListeners, listenersRef>>
    ]_vars

\* The subscription teardown closure has run a second time and left attached
\* a wrapper that was subscribed after its first run; the debounce teardown
\* closure ran as well and an invocation was scheduled.
C9_Witness ==
  /\ last = Result("eventListenersDisposable", "again", <<"A">>)
  /\ listenersRef["A"] = RefUndefined
  /\ AttachedCallbacks(attached) # {}
  /\ disposed["A"].debounces
  /\ nextTimer > 1

\* C10: the WeakMap of a subsystem holds a Map or an array for an owner if
\* and only if a registration (debounceTask, addEventListener) was made for
\* the owner since the last disposal: only a registration creates one, a
\* registration leaves one, and a disposal leaves none.
C10_BlobExistence ==
  [][\A o \in Owners :
       /\ (o \notin DOMAIN registeredDebounces /\ o \in DOMAIN registeredDebounces')
            => last'.op = "debounceTask"
       /\ (o \notin DOMAIN eventListeners /\ o \in DOMAIN eventListeners')
            => last'.op = "addEventListener"
       /\ (last'.op = "debounceTask" /\ last'.res = "ok" /\ last'.on[1] = o)
            => o \in DOMAIN registeredDebounces'
       /\ (last'.op = "addEventListener" /\ last'.res = "ok"
             /\ last'.on[1].obj = o)
            => o \in DOMAIN eventListeners'
       /\ RunDebouncesDisposable(o) => o \notin DOMAIN registeredDebounces'
       /\ RunEventListenersDisposable(o) => o \notin DOMAIN eventListeners'
    ]_vars

\* C11: precondition failures of debounceTask.  A call on a destroyed
\* owner, or with a name that is no function of the owner, signals an error
\* and changes nothing: no Map is created, no teardown closure registered,
\* no timer armed, and the entries and cancel ids stay as they were.
C11_PreconditionFailures ==
  [][\A c \in DebounceCalls :
       ( /\ DebounceTask(c[1], c[2], c[3])
         /\ (c[2] \notin MethodNames \/ isDestroyed[c[1]]) )
         => /\ last'.res = "error"
            /\ UNCHANGED <<registeredDebounces, timers, nextTimer, registered>>
    ]_vars

\* debounceTask has just been refused while both owners are destroyed; an
\* owner has an entry and a pending invocation that the call left alone.
C11_Witness ==
  /\ last = Result("debounceTask", "error", << >>)
  /\ \A o \in Owners : isDestroyed[o]
  /\ \E t \in timers :
       /\ t.target \in DOMAIN registeredDebounces
       /\ t.name \in DOMAIN registeredDebounces[t.target]
       /\ registeredDebounces[t.target][t.name].cancelId = t.id

\* The entry of a task name in an owner's Map: << >> when there is none.
EntryOf(reg, obj, name) ==
  IF name \in DOMAIN BlobOf(reg, obj) THEN <<BlobOf(reg, obj)[name]>> ELSE << >>

\* Nothing of another owner changes in the step.
OtherOwnersKept(obj) ==
  \A o \in Owners \ {obj} :
    /\ BlobOf(registeredDebounces', o) = BlobOf(registeredDebounces, o)
    /\ {t \in timers' : t.target = o} = {t \in timers : t.target = o}

\* Nothing of the names in the set changes for the owner in the step.
NamesKept(obj, names) ==
  \A n \in names :
    /\ EntryOf(registeredDebounces', obj, n) = EntryOf(registeredDebounces, obj, n)
    /\ PendingFor(timers', obj, n) = PendingFor(timers, obj, n)

\* The steps of debounce-task.ts keep the other owners, and those for one
\* name keep the other names of the set.
Isolated(names) ==
  /\ \A c \in DebounceCalls :
       DebounceTask(c[1], c[2], c[3]) =>
         OtherOwnersKept(c[1]) /\ NamesKept(c[1], names \ {c[2]})
  /\ \A c \in CancelCalls :
       CancelDebounce(c[1], c[2]) =>
         OtherOwnersKept(c[1]) /\ NamesKept(c[1], names \ {c[2]})
  /\ \A tm \in timers :
       (Fire(tm) \/ \E a \in Args : FireReentrant(tm, a)) =>
         OtherOwnersKept(tm.target) /\ NamesKept(tm.target, names \ {tm.name})
  /\ \A o \in Owners : RunDebouncesDisposable(o) => OtherOwnersKept(o)

\* C12: debounce isolation.  debounceTask, cancelDebounce, a fire or the
\* teardown for (A, x) leaves the entry, wrapper, cancel id and pending
\* invocation of every other owner unchanged, and debounceTask,
\* cancelDebounce or a fire for (A, x) leaves those of (A, y) unchanged for
\* every other function name y of the owner.
C12_Isolation == [][Isolated(MethodNames)]_vars

\* C12 for the entries of the names that are no member of Map.prototype.
C12_IsolationPlainNames == [][Isolated(MethodNames \ MapMembers)]_vars

\* C13: re-entrant fire.  When the run loop invokes the wrapper of (obj,
\* name), the entry of the name is deleted before the task runs; a task that
\* calls debounceTask(obj, name, ...) while it runs gets a wrapper of its
\* own, and when the fire is over the Map holds the new entry, whose cancel
\* id is that of the pending invocation of the new wrapper.
C13_ReentrantFire ==
  [][\A tm \in timers :
       /\ (Fire(tm) /\ tm.method # UndefinedTask)
            => /\ EntryOf(registeredDebounces', tm.target, tm.name) = << >>
               /\ called' = <<tm.target, tm.name, tm.args>>
       /\ \A a \in Args :
            FireReentrant(tm, a) =>
              LET fresh == NewWrapper(tm.target, tm.name, nextTimer)
              IN  /\ fresh # tm.method
                  /\ called' = <<tm.target, tm.name, tm.args>>
                  /\ EntryOf(registeredDebounces', tm.target, tm.name)
                       = <<[debouncedTask |-> fresh, cancelId |-> nextTimer]>>
                  /\ PendingFor(timers', tm.target, tm.name)
                       = {[target |-> tm.target, method |-> fresh, args |-> a,
                           id |-> nextTimer, name |-> tm.name]}
    ]_vars

\* The task of (A, x) ran with the argument of the fired invocation and
\* scheduled itself again: the Map holds the entry of the second wrapper.
C13_Witness ==
  /\ last = Result("fire", "reentered", <<"A", "x">>)
  /\ called = <<"A", "x", 1>>
  /\ EntryOf(registeredDebounces, "A", "x")
       = <<[debouncedTask |-> NewWrapper("A", "x", 2), cancelId |-> 2]>>
  /\ timers = {[target |-> "A", method |-> NewWrapper("A", "x", 2),
                args |-> 2, id |-> 2, name |-> "x"]}

\* C14: the debounce teardown closure cancels the cancel id of every entry
\* left in the owner's Map and then clears the Map: once it has returned,
\* the Map holds no entry for any task name.
C14_TeardownClearsBlob ==
  [][\A o \in Owners :
       RunDebouncesDisposable(o) =>
         /\ \A n \in DOMAIN BlobOf(registeredDebounces, o) :
              \A t \in timers' : t.id # registeredDebounces[o][n].cancelId
         /\ DOMAIN BlobOf(registeredDebounces', o) = {}
    ]_vars

\* C15: the subscription teardown closure detaches the wrapper of every item
\* of the owner's array with the item's options and then discards the
\* array: once it has returned, the array the WeakMap holds for the owner
\* has no item, so a later removeEventListener of the owner finds no match.
C15_TeardownDiscardsList ==
  [][\A o \in Owners :
       /\ RunEventListenersDisposable(o)
            => ListenersOf(eventListeners', o) = << >>
       /\ \A c \in ElementCalls :
            ( /\ last = Result("eventListenersDisposable", "ok", <<c[1]>>)
              /\ RemoveEventListener(c[1], c[2], c[3], c[4], c[5]) )
              => last'.res = "nomatch"
    ]_vars

\* C16: bridge registration happens once.  In every reachable state
\* registerDisposable has been called at most once for an owner and a
\* module, and it has been called exactly when the WeakMap of the module
\* holds a Map or an array for the owner.
C16_RegisteredOnce ==
  \A o \in Owners :
    /\ registered[o].debounces = IF o \in DOMAIN registeredDebounces THEN 1 ELSE 0
    /\ registered[o].listeners = IF o \in DOMAIN eventListeners THEN 1 ELSE 0

\* Both teardown closures of the owner have run, and debounceTask and
\* addEventListener were called for the owner again after that.
C16_Witness ==
  /\ last.op = "addEventListener" /\ last.res = "ok"
  /\ disposed["A"].debounces /\ disposed["A"].listeners
  /\ nextTimer = 3 /\ nextCallback = 3
  /\ Len(eventListeners["A"]) = 2 * LISTENER_ITEM_LENGTH
  /\ registered["A"] = [debounces |-> 1, listeners |-> 1]

\* C17: removeEventListener(obj, T, e, cb) acts on the first item, in
\* registration order, whose element, event name and original callback are
\* (T, e, cb): it removes that item and no other, and the items left keep
\* their order and their five fields; when no item matches, the array and
\* the attached listeners stay as they are.
C17_FirstMatch ==
  [][last'.op = "removeEventListener" =>
       \A c \in ElementCalls :
         RemoveEventListener(c[1], c[2], c[3], c[4], c[5]) =>
           LET before == ListenersOf(eventListeners, c[1])
               after == ListenersOf(eventListeners', c[1])
               hits == IndexesFor(before, <<c[2], c[3], c[4]>>)
           IN  IF hits = {}
               THEN after = before /\ attached' = attached
               ELSE \E i \in hits :
                      /\ \A j \in hits : i <= j
                      /\ last'.on = <<At(before, i + INDEX_CALLBACK)>>
                      /\ after = SubSeq(before, 1, i)
                                   \o SubSeq(before, i + LISTENER_ITEM_LENGTH + 1,
                                             Len(before))
    ]_vars

\* The owner subscribed cb1, cb2 and cb1 again to (T1, click) and
\* unsubscribed cb1 once: the item of the first subscription is gone, the
\* items of cb2 and of the second subscription of cb1 are left in that order.
C17_Witness ==
  /\ last = Result("removeEventListener", "removed", <<RunBind("A", "cb1", 1)>>)
  /\ "A" \in DOMAIN eventListeners
  /\ eventListeners["A"]
       = <<"T1", "click", RunBind("A", "cb2", 2), "cb2", NoOptions,
           "T1", "click", RunBind("A", "cb1", 3), "cb1", NoOptions>>

\* C18: once the subscription teardown closure of an owner has run, no
\* wrapper of that owner is attached to any element in any later state,
\* also when addEventListener is called for the owner after the teardown.
C18_NothingAttachedAfterTeardown ==
  \A o \in Owners :
    disposed[o].listeners => \A l \in attached : l.callback.obj # o

\* C19: while the debounce teardown of an owner has not run, the owner's Map
\* has an entry for a name exactly when an invocation is pending for (obj,
\* name), and the cancel id of the entry is the id of that invocation.
C19_EntryIffPending ==
  \A o \in Owners :
    ~disposed[o].debounces =>
      \A n \in MethodNames :
        /\ (n \in DOMAIN BlobOf(registeredDebounces, o))
             = (PendingFor(timers, o, n) # {})
        /\ \A t \in PendingFor(timers, o, n) :
             EntryOf(registeredDebounces, o, n)[1].cancelId = t.id

\* C19 for the task names that are no member of Map.prototype.
C19_EntryIffPendingPlainNames ==
  \A o \in Owners :
    ~disposed[o].debounces =>
      \A n \in MethodNames \ MapMembers :
        /\ (n \in DOMAIN BlobOf(registeredDebounces, o))
             = (PendingFor(timers, o, n) # {})
        /\ \A t \in PendingFor(timers, o, n) :
             EntryOf(registeredDebounces, o, n)[1].cancelId = t.id

\* The calls of the names in the set that are made while nothing is pending
\* for the name are treated as fresh.
TreatedAsFresh(names) ==
  /\ \A c \in DebounceCalls :
       ( /\ c[2] \in names
         /\ ~isDestroyed[c[1]]
         /\ ~disposed[c[1]].debounces
         /\ PendingFor(timers, c[1], c[2]) = {}
         /\ DebounceTask(c[1], c[2], c[3]) )
         => /\ last'.res = "ok"
            /\ \E t \in timers' :
                 /\ PendingFor(timers', c[1], c[2]) = {t}
                 /\ t.method = NewWrapper(c[1], c[2], nextTimer)
  /\ \A c \in CancelCalls :
       ( /\ c[2] \in names
         /\ ~disposed[c[1]].debounces
         /\ PendingFor(timers, c[1], c[2]) = {}
         /\ CancelDebounce(c[1], c[2]) )
         => /\ last'.res # "error"
            /\ UNCHANGED <<registeredDebounces, timers>>

\* C20: for every name that is a function of the owner, the members of
\* Map.prototype included, a debounceTask call made while nothing is pending
\* for the name builds a new wrapper that calls the owner's task, and a
\* cancelDebounce call made while nothing is pending changes nothing.
C20_MapMemberNames == [][TreatedAsFresh(MethodNames)]_vars

\* C20 for the task names that are no member of Map.prototype.
C20_PlainNames == [][TreatedAsFresh(MethodNames \ MapMembers)]_vars

====
